---- MODULE Spec2Model ----
(***************************************************************************)
(* A model of src/script.js: the App3 controller that builds a grid of     *)
(* coloured cubes (a pixel-art mosaic) in init(), redraws it in render()   *)
(* on every animation frame, and follows the window size in its resize     *)
(* listener.                                                               *)
(*                                                                         *)
(* JavaScript numbers are modelled exactly: every value the program        *)
(* computes is a quotient of small integers, kept as a reduced fraction    *)
(* <<numerator, denominator>>.  Two such quotients are equal as IEEE       *)
(* doubles exactly when they are equal as fractions (operands < 2^11).     *)
(***************************************************************************)
EXTENDS Integers, Sequences, FiniteSets, TLC

(***************************************************************************)
(* Numbers                                                                 *)
(***************************************************************************)
Abs(n) == IF n < 0 THEN -n ELSE n

RECURSIVE GCD(_, _)
GCD(a, b) == IF b = 0 THEN a ELSE GCD(b, a % b)

\* n / d as a reduced fraction with a positive denominator (d # 0).
Rat(n, d) ==
    LET g == GCD(Abs(n), Abs(d))
        s == IF d < 0 THEN -1 ELSE 1
    IN  <<(s * n) \div g, (s * d) \div g>>

Num(i) == <<i, 1>>
RatNeg(a) == <<-a[1], a[2]>>
RatAdd(a, b) == Rat(a[1] * b[2] + b[1] * a[2], a[2] * b[2])
RatSub(a, b) == RatAdd(a, RatNeg(b))
RatMul(a, b) == Rat(a[1] * b[1], a[2] * b[2])
RatDiv(a, b) == Rat(a[1] * b[2], a[2] * b[1])

(***************************************************************************)
(* THREE.Color(hex): the three 8-bit channels of a packed 24-bit colour.   *)
(***************************************************************************)
Color(hex) == <<(hex \div 65536) % 256, (hex \div 256) % 256, hex % 256>>

(***************************************************************************)
(* The constants of App3                                                   *)
(***************************************************************************)
Undefined == [defined |-> FALSE]

\* window.innerWidth / window.innerHeight, read anew by every use of the getter
CAMERA_PARAM(window) ==
    [fovy |-> 60, aspect |-> Rat(window.innerWidth, window.innerHeight),
     near |-> Rat(1, 10), far |-> Num(400),
     x |-> Num(0), y |-> Num(0), z |-> Num(25),
     lookAt |-> <<Num(0), Num(0), Num(0)>>]

RENDERER_PARAM(window) ==
    [clearColor |-> \h666666,
     width |-> window.innerWidth, height |-> window.innerHeight]

DIRECTIONAL_LIGHT_PARAM ==
    [color |-> \hffffff, intensity |-> Num(1),
     x |-> Num(1), y |-> Num(1), z |-> Num(1)]

AMBIENT_LIGHT_PARAM == [color |-> \hffffff, intensity |-> Rat(2, 10)]

MATERIAL_PARAM == [color |-> \hffffff]

LINE_MATERIAL_PARAM ==
    [color |-> \h000000, transparent |-> TRUE, opacity |-> Num(0)]

BOX_ROW == 25
BOX_COL == 20
BOX_SIZE == 1

(***************************************************************************)
(* The override statements of init(), in the order they are written:       *)
(*   if( col === c && row === r ) {                                        *)
(*     this.box.material.color = new THREE.Color(hex); }                   *)
(***************************************************************************)
O(c, r, hex) == [col |-> c, row |-> r, color |-> hex]

OverrideStatements == <<
    O(5, 1, \h000000), O(13, 1, \h000000), O(4, 2, \h000000), O(6, 2, \h000000),
    O(12, 2, \h000000), O(14, 2, \h000000), O(4, 3, \h000000), O(7, 3, \h000000),
    O(12, 3, \h000000), O(14, 3, \h000000), O(4, 4, \h000000), O(7, 4, \h000000),
    O(11, 4, \h000000), O(14, 4, \h000000), O(4, 5, \h000000), O(8, 5, \h000000),
    O(11, 5, \h000000), O(15, 5, \h000000), O(4, 6, \h000000), O(8, 6, \h000000),
    O(10, 6, \h000000), O(15, 6, \h000000), O(5, 7, \h000000), O(9, 7, \h000000),
    O(15, 7, \h000000), O(5, 8, \h000000), O(15, 8, \h000000), O(6, 9, \h000000),
    O(16, 9, \h000000), O(5, 10, \h000000), O(17, 10, \h000000), O(4, 11, \h000000),
    O(18, 11, \h000000), O(4, 12, \h000000), O(19, 12, \h000000), O(4, 13, \h000000),
    O(20, 13, \h000000), O(5, 14, \h000000), O(10, 14, \h000000), O(21, 14, \h000000),
    O(5, 15, \h000000), O(21, 15, \h000000), O(4, 16, \h000000), O(15, 16, \h000000),
    O(22, 16, \h000000), O(4, 17, \h000000), O(14, 17, \h000000), O(16, 17, \h000000),
    O(22, 17, \h000000), O(5, 18, \h000000), O(6, 18, \h000000), O(7, 18, \h000000),
    O(13, 18, \h000000), O(16, 18, \h000000), O(19, 18, \h000000), O(22, 18, \h000000),
    O(8, 19, \h000000), O(14, 19, \h000000), O(17, 19, \h000000), O(18, 19, \h000000),
    O(20, 19, \h000000), O(21, 19, \h000000), O(5, 2, \h69889d), O(5, 3, \h69889d),
    O(6, 3, \h69889d), O(5, 4, \h69889d), O(6, 4, \h69889d), O(6, 5, \h69889d),
    O(7, 5, \h69889d), O(7, 6, \h69889d), O(7, 7, \h69889d), O(8, 7, \h69889d),
    O(15, 10, \h69889d), O(10, 13, \h69889d), O(16, 16, \h69889d), O(11, 18, \h69889d),
    O(13, 2, \h6eb2dd), O(13, 3, \h6eb2dd), O(12, 4, \h6eb2dd), O(13, 4, \h6eb2dd),
    O(12, 5, \h6eb2dd), O(13, 5, \h6eb2dd), O(14, 5, \h6eb2dd), O(11, 6, \h6eb2dd),
    O(13, 6, \h6eb2dd), O(14, 6, \h6eb2dd), O(11, 7, \h6eb2dd), O(14, 7, \h6eb2dd),
    O(11, 8, \h6eb2dd), O(14, 8, \h6eb2dd), O(7, 9, \h6eb2dd), O(10, 9, \h6eb2dd),
    O(14, 9, \h6eb2dd), O(15, 9, \h6eb2dd), O(6, 10, \h6eb2dd), O(10, 10, \h6eb2dd),
    O(11, 10, \h6eb2dd), O(12, 10, \h6eb2dd), O(14, 10, \h6eb2dd), O(5, 11, \h6eb2dd),
    O(6, 11, \h6eb2dd), O(9, 11, \h6eb2dd), O(10, 11, \h6eb2dd), O(11, 11, \h6eb2dd),
    O(12, 11, \h6eb2dd), O(13, 11, \h6eb2dd), O(5, 12, \h6eb2dd), O(6, 12, \h6eb2dd),
    O(9, 12, \h6eb2dd), O(10, 12, \h6eb2dd), O(11, 12, \h6eb2dd), O(6, 13, \h6eb2dd),
    O(9, 13, \h6eb2dd), O(15, 15, \h6eb2dd), O(13, 16, \h6eb2dd), O(14, 16, \h6eb2dd),
    O(9, 17, \h6eb2dd), O(10, 17, \h6eb2dd), O(11, 17, \h6eb2dd), O(12, 17, \h6eb2dd),
    O(8, 18, \h6eb2dd), O(9, 18, \h6eb2dd), O(10, 18, \h6eb2dd), O(5, 5, \h424040),
    O(5, 6, \h424040), O(6, 6, \h424040), O(12, 6, \h424040), O(6, 7, \h424040),
    O(10, 7, \h424040), O(12, 7, \h424040), O(6, 8, \h424040), O(7, 8, \h424040),
    O(8, 8, \h424040), O(12, 8, \h424040), O(13, 8, \h424040), O(11, 9, \h424040),
    O(13, 9, \h424040), O(13, 10, \h424040), O(16, 10, \h424040), O(16, 11, \h424040),
    O(12, 12, \h424040), O(13, 12, \h424040), O(17, 12, \h424040), O(11, 13, \h424040),
    O(17, 13, \h424040), O(17, 14, \h424040), O(6, 15, \h424040), O(16, 15, \h424040),
    O(18, 15, \h424040), O(18, 16, \h424040), O(5, 17, \h424040), O(13, 17, \h424040),
    O(18, 17, \h424040), O(12, 18, \h424040), O(9, 19, \h424040), O(10, 19, \h424040),
    O(13, 19, \h424040), O(13, 7, \h5c6060), O(9, 8, \h5c6060), O(10, 8, \h5c6060),
    O(8, 9, \h5c6060), O(9, 9, \h5c6060), O(12, 9, \h5c6060), O(7, 10, \h5c6060),
    O(8, 10, \h5c6060), O(9, 10, \h5c6060), O(7, 11, \h5c6060), O(8, 11, \h5c6060),
    O(14, 11, \h5c6060), O(15, 11, \h5c6060), O(17, 11, \h5c6060), O(7, 12, \h5c6060),
    O(8, 12, \h5c6060), O(14, 12, \h5c6060), O(15, 12, \h5c6060), O(16, 12, \h5c6060),
    O(18, 12, \h5c6060), O(5, 13, \h5c6060), O(7, 13, \h5c6060), O(8, 13, \h5c6060),
    O(13, 13, \h5c6060), O(14, 13, \h5c6060), O(15, 13, \h5c6060), O(16, 13, \h5c6060),
    O(18, 13, \h5c6060), O(19, 13, \h5c6060), O(6, 14, \h5c6060), O(7, 14, \h5c6060),
    O(8, 14, \h5c6060), O(9, 14, \h5c6060), O(13, 14, \h5c6060), O(14, 14, \h5c6060),
    O(15, 14, \h5c6060), O(16, 14, \h5c6060), O(18, 14, \h5c6060), O(19, 14, \h5c6060),
    O(20, 14, \h5c6060), O(7, 15, \h5c6060), O(8, 15, \h5c6060), O(9, 15, \h5c6060),
    O(12, 15, \h5c6060), O(13, 15, \h5c6060), O(14, 15, \h5c6060), O(17, 15, \h5c6060),
    O(19, 15, \h5c6060), O(20, 15, \h5c6060), O(5, 16, \h5c6060), O(6, 16, \h5c6060),
    O(7, 16, \h5c6060), O(8, 16, \h5c6060), O(9, 16, \h5c6060), O(10, 16, \h5c6060),
    O(11, 16, \h5c6060), O(12, 16, \h5c6060), O(17, 16, \h5c6060), O(19, 16, \h5c6060),
    O(20, 16, \h5c6060), O(21, 16, \h5c6060), O(6, 17, \h5c6060), O(7, 17, \h5c6060),
    O(8, 17, \h5c6060), O(17, 17, \h5c6060), O(19, 17, \h5c6060), O(20, 17, \h5c6060),
    O(21, 17, \h5c6060), O(17, 18, \h5c6060), O(18, 18, \h5c6060), O(20, 18, \h5c6060),
    O(21, 18, \h5c6060), O(11, 19, \h5c6060), O(12, 19, \h5c6060), O(12, 13, \hffffff),
    O(12, 14, \hffffff), O(11, 14, \hff5552), O(10, 15, \hff5552), O(11, 15, \hff5552) >>

(***************************************************************************)
(* Bounds of the model                                                     *)
(***************************************************************************)
\* the camera's azimuth is followed modulo AngleSteps positions
AngleSteps == 2
\* pointer input the orbit controller may hold between two updates
MaxDrag == 1
\* rendered frames are counted modulo FrameWrap
FrameWrap == 2

\* the viewport sizes the window takes
Widths == {800, 1024}
Heights == {600, 768}
Windows == [innerWidth : Widths, innerHeight : Heights]

\* the page: whether a WebGL context can be created, whether '#webgl' exists
Hosts == [webgl : BOOLEAN, wrapper : BOOLEAN]

VARIABLES
    cfg,            \* what init() declares: BOX_ROW, BOX_COL, BOX_SIZE, the overrides
    window,         \* window.innerWidth, window.innerHeight
    host,           \* the page's capabilities
    pc,             \* where the DOMContentLoaded handler stands
    resizeListener, \* the constructor's 'resize' listener is registered
    renderer,       \* this.renderer
    camera,         \* this.camera
    scene,          \* this.scene
    materials,      \* the MeshPhongMaterial objects created so far, by identity
    this,           \* this.material, this.box, this.boxGeometry, this.isDown
    controls,       \* this.controls
    row, col,       \* the loop variables of init()
    rafPending,     \* requested animation-frame callbacks not yet fired
    resizeQueued,   \* a 'resize' event is waiting to be dispatched
    calls,          \* the library calls the latest render()/resize handler made
    lastError,      \* what the latest handler threw, "none" if it returned
    framebuffer,    \* what renderer.render drew last
    frames          \* rendered frames, modulo FrameWrap

vars == <<cfg, window, host, pc, resizeListener, renderer, camera, scene,
          materials, this, controls, row, col, rafPending, resizeQueued,
          calls, lastError, framebuffer, frames>>

\* everything App3 owns
appVars == <<renderer, camera, scene, materials, this, controls, row, col>>

\* (variant: a last statement that repaints col 5, row 1 in 0xff5552)
ShippedConfigRepainting ==
    [BOX_ROW |-> BOX_ROW, BOX_COL |-> BOX_COL, BOX_SIZE |-> Num(BOX_SIZE),
     overrides |-> Append(OverrideStatements, O(5, 1, \hff5552))]

ShippedConfig ==
    [BOX_ROW |-> BOX_ROW, BOX_COL |-> BOX_COL, BOX_SIZE |-> Num(BOX_SIZE),
     overrides |-> OverrideStatements]

(***************************************************************************)
(* init(): the grid                                                        *)
(***************************************************************************)
GridWidth(c) == RatMul(Num(c.BOX_ROW), c.BOX_SIZE)
GridHeight(c) == RatMul(Num(c.BOX_COL), c.BOX_SIZE)

\* (variant: half the width less one cell)
OffsetXLessOne(c) ==
    RatDiv(RatNeg(RatMul(Num(c.BOX_ROW - 1), c.BOX_SIZE)), Num(2))

OffsetX(c) == RatDiv(RatNeg(GridWidth(c)), Num(2))

\* (variant: the vertical offset taken from the grid's width)
OffsetYFromWidth(c) == RatDiv(RatNeg(GridWidth(c)), Num(2))

OffsetY(c) == RatDiv(RatNeg(GridHeight(c)), Num(2))

\* this.box.position.set(col * BOX_SIZE + offsetX, -row * BOX_SIZE - offsetY, 0)
BoxPosition(c, r, k) ==
    <<RatAdd(RatMul(Num(k), c.BOX_SIZE), OffsetX(c)),
      RatSub(RatMul(Num(-r), c.BOX_SIZE), OffsetY(c)),
      Num(0)>>

\* (variant: a statement repaints only a cube that still has the base colour)
OverrideStepFirstWins(stmt, r, k, color) ==
    IF k = stmt.col /\ r = stmt.row /\ color = Color(MATERIAL_PARAM.color)
      THEN Color(stmt.color) ELSE color

\* (variant: col and row compared the other way round)
OverrideStepSwapped(stmt, r, k, color) ==
    IF r = stmt.col /\ k = stmt.row THEN Color(stmt.color) ELSE color

\* One override statement, executed for the loop's (r, k) on the colour held
\* by the material of this.box.
OverrideStep(stmt, r, k, color) ==
    IF k = stmt.col /\ r = stmt.row THEN Color(stmt.color) ELSE color

\* A colour object: three 8-bit channels.
IsColor(c) == c \in (0..255) \X (0..255) \X (0..255)

\* The statements lo..hi executed one after the other on `color`: first
\* lo..mid, then mid+1..hi on the colour those left.  (Halving the range, and
\* looking at the intermediate colour before going on, keeps the evaluation
\* shallow; the order of execution is that of the text.)
RECURSIVE RunOverrides(_, _, _, _, _, _)
RunOverrides(stmts, lo, hi, r, k, color) ==
    IF lo > hi THEN color
    ELSE IF lo = hi THEN OverrideStep(stmts[lo], r, k, color)
    ELSE LET mid == (lo + hi) \div 2
             first == RunOverrides(stmts, lo, mid, r, k, color)
         IN  IF IsColor(first)
               THEN RunOverrides(stmts, mid + 1, hi, r, k, first)
               ELSE first

\* (variant: the material made from LINE_MATERIAL_PARAM)
NewLineMaterial(heap) ==
    [id |-> Len(heap) + 1,
     heap |-> Append(heap, [color |-> Color(LINE_MATERIAL_PARAM.color)])]

\* (variant: one material created on the first pass and used by every cube)
NewMaterialShared(heap) ==
    IF heap = <<>>
    THEN [id |-> 1,
          heap |-> Append(heap, [color |-> Color(MATERIAL_PARAM.color)])]
    ELSE [id |-> 1,
          heap |-> [heap EXCEPT ![1].color = Color(MATERIAL_PARAM.color)]]

\* this.material = new THREE.MeshPhongMaterial(App3.MATERIAL_PARAM):
\* a new object on every pass of the loop.
NewMaterial(heap) ==
    [id |-> Len(heap) + 1,
     heap |-> Append(heap, [color |-> Color(MATERIAL_PARAM.color)])]

\* The colour a mesh shows: that of the material object it refers to.
ColorOf(mesh, heap) == heap[mesh.material].color

(***************************************************************************)
(* The state before DOMContentLoaded                                       *)
(***************************************************************************)
InitIn(configs, windows, hosts) ==
    /\ cfg \in configs
    /\ window \in windows
    /\ host \in hosts
    /\ pc = "waiting"
    /\ resizeListener = FALSE
    /\ renderer = Undefined
    /\ camera = Undefined
    /\ scene = Undefined
    /\ materials = <<>>
    /\ this = [material |-> 0, box |-> 0, boxGeometry |-> Undefined,
               isDown |-> FALSE]
    /\ controls = Undefined
    /\ row = 0
    /\ col = 0
    /\ rafPending = 0
    /\ resizeQueued = FALSE
    /\ calls = <<>>
    /\ lastError = "none"
    /\ framebuffer = Undefined
    /\ frames = 0

Init == InitIn({ShippedConfig}, Windows, Hosts)

(***************************************************************************)
(* The library objects                                                     *)
(***************************************************************************)
\* new THREE.PerspectiveCamera(fovy, aspect, near, far): the constructor
\* builds the projection matrix from the aspect it is given.
PerspectiveCamera(p) ==
    [defined |-> TRUE, fovy |-> p.fovy, aspect |-> p.aspect,
     near |-> p.near, far |-> p.far, position |-> <<p.x, p.y, p.z>>,
     lookAt |-> p.lookAt, projectionAspect |-> p.aspect, azimuth |-> 0]

DirectionalLight(p) ==
    [type |-> "DirectionalLight", color |-> Color(p.color),
     intensity |-> p.intensity, position |-> <<p.x, p.y, p.z>>]

AmbientLight(p) ==
    [type |-> "AmbientLight", color |-> Color(p.color),
     intensity |-> p.intensity]

BoxGeometry(w, h, d) == [defined |-> TRUE, width |-> w, height |-> h, depth |-> d]

Mesh(material, r, k) ==
    [type |-> "Mesh", geometry |-> "boxGeometry", material |-> material,
     position |-> <<Num(0), Num(0), Num(0)>>, row |-> r, col |-> k]

\* controls.update(): the accumulated pointer input turns the camera.
ControlsUpdate(cam, ctl) ==
    [camera |-> [cam EXCEPT !.azimuth = (cam.azimuth + ctl.pending) % AngleSteps],
     controls |-> [ctl EXCEPT !.pending = 0]]

\* renderer.render(scene, camera): what reaches the render target.
RendererRender(rnd, scn, cam) ==
    [defined |-> TRUE, objects |-> Len(scn.children),
     width |-> rnd.width, height |-> rnd.height,
     aspect |-> cam.projectionAspect, azimuth |-> cam.azimuth]

(***************************************************************************)
(* The DOMContentLoaded handler: new App3(); app.init(); app.render();     *)
(***************************************************************************)
\* const app = new App3()
Constructor ==
    /\ pc = "waiting"
    /\ resizeListener' = TRUE
    /\ this' = [this EXCEPT !.isDown = FALSE]
    /\ pc' = "init"
    /\ calls' = <<>>
    /\ lastError' = "none"
    /\ UNCHANGED <<cfg, window, host, renderer, camera, scene, materials,
                   controls, row, col, rafPending, resizeQueued,
                   framebuffer, frames>>

\* init(): the renderer and its canvas.  new THREE.WebGLRenderer() throws
\* without WebGL; wrapper.appendChild throws a TypeError when '#webgl' is
\* missing.  Either error leaves the handler, so app.render() is not reached.
InitRenderer ==
    /\ pc = "init"
    /\ IF ~host.webgl
         THEN /\ lastError' = "Error"
              /\ pc' = "idle"
              /\ UNCHANGED renderer
         ELSE /\ renderer' =
                   [defined |-> TRUE,
                    clearColor |-> Color(RENDERER_PARAM(window).clearColor),
                    width |-> RENDERER_PARAM(window).width,
                    height |-> RENDERER_PARAM(window).height]
              /\ IF host.wrapper
                   THEN pc' = "init_scene" /\ UNCHANGED lastError
                   ELSE pc' = "idle" /\ lastError' = "TypeError"
    /\ UNCHANGED <<cfg, window, host, resizeListener, camera, scene,
                   materials, this, controls, row, col, rafPending,
                   resizeQueued, calls, framebuffer, frames>>

\* init(): the scene, the camera and the two lights.
InitScene ==
    /\ pc = "init_scene"
    /\ camera' = PerspectiveCamera(CAMERA_PARAM(window))
    /\ scene' = [defined |-> TRUE,
                 children |-> <<DirectionalLight(DIRECTIONAL_LIGHT_PARAM),
                                AmbientLight(AMBIENT_LIGHT_PARAM)>>]
    /\ pc' = "init_grid"
    /\ UNCHANGED <<cfg, window, host, resizeListener, renderer, materials,
                   this, controls, row, col, rafPending, resizeQueued,
                   calls, lastError, framebuffer, frames>>

\* (variant: the loops left for later; init() goes on to the controls)
InitGridDeferred ==
    /\ pc = "init_grid"
    /\ this' = [this EXCEPT !.boxGeometry =
                   BoxGeometry(cfg.BOX_SIZE, cfg.BOX_SIZE, cfg.BOX_SIZE)]
    /\ row' = 1
    /\ pc' = "init_controls"
    /\ UNCHANGED <<cfg, window, host, resizeListener, renderer, camera,
                   scene, materials, controls, col, rafPending,
                   resizeQueued, calls, lastError, framebuffer, frames>>

\* init(): the constants, the shared geometry, and "let row = 1".
InitGrid ==
    /\ pc = "init_grid"
    /\ this' = [this EXCEPT !.boxGeometry =
                   BoxGeometry(cfg.BOX_SIZE, cfg.BOX_SIZE, cfg.BOX_SIZE)]
    /\ row' = 1
    /\ pc' = "for_row"
    /\ UNCHANGED <<cfg, window, host, resizeListener, renderer, camera,
                   scene, materials, controls, col, rafPending,
                   resizeQueued, calls, lastError, framebuffer, frames>>

\* (variants: the tests with <=)
RowTestInclusive(c, r) == r <= c.BOX_COL

ColTestInclusive(c, k) == k <= c.BOX_ROW

\* The loop tests: row < BOX_COL and col < BOX_ROW.
RowTest(c, r) == r < c.BOX_COL

ColTest(c, k) == k < c.BOX_ROW

\* for (let row = 1; row < BOX_COL; row++): the test, then "let col = 1".
ForRow ==
    /\ pc = "for_row"
    /\ IF RowTest(cfg, row)
         THEN col' = 1 /\ pc' = "for_col"
         ELSE pc' = "init_controls" /\ UNCHANGED col
    /\ UNCHANGED <<cfg, window, host, resizeListener, renderer, camera,
                   scene, materials, this, controls, row, rafPending,
                   resizeQueued, calls, lastError, framebuffer, frames>>

\* One pass of "for (let col = 1; col < BOX_ROW; col++)": a new material and
\* mesh, every override statement, the position, scene.add, col++.
BuildBox ==
    /\ pc = "for_col"
    /\ ColTest(cfg, col)
    /\ LET m == NewMaterial(materials)
           box == Mesh(m.id, row, col)
           painted == RunOverrides(cfg.overrides, 1, Len(cfg.overrides),
                                   row, col, ColorOf(box, m.heap))
           placed == [box EXCEPT !.position = BoxPosition(cfg, row, col)]
       IN  /\ materials' = [m.heap EXCEPT ![box.material].color = painted]
           /\ scene' = [scene EXCEPT !.children = Append(@, placed)]
           /\ this' = [this EXCEPT !.material = m.id,
                                   !.box = Len(scene.children) + 1]
    /\ col' = col + 1
    /\ UNCHANGED <<cfg, window, host, pc, resizeListener, renderer, camera,
                   controls, row, rafPending, resizeQueued, calls,
                   lastError, framebuffer, frames>>

\* The inner loop's test fails: row++.
NextRow ==
    /\ pc = "for_col"
    /\ ~ColTest(cfg, col)
    /\ row' = row + 1
    /\ pc' = "for_row"
    /\ UNCHANGED <<cfg, window, host, resizeListener, renderer, camera,
                   scene, materials, this, controls, col, rafPending,
                   resizeQueued, calls, lastError, framebuffer, frames>>

\* init(): this.controls = new OrbitControls(this.camera, domElement)
InitControls ==
    /\ pc = "init_controls"
    /\ controls' = [defined |-> TRUE, pending |-> 0]
    /\ pc' = "render"
    /\ UNCHANGED <<cfg, window, host, resizeListener, renderer, camera,
                   scene, materials, this, row, col, rafPending,
                   resizeQueued, calls, lastError, framebuffer, frames>>

(***************************************************************************)
(* render()                                                                *)
(***************************************************************************)
\* (variant: render() requesting the frame twice)
RequestTwoFrames(pending) == pending + 2

\* (variant: render() without its requestAnimationFrame)
RequestNoFrame(pending) == pending

\* requestAnimationFrame(this.render): the callbacks one render() requests
RequestAnimationFrame(pending) == pending + 1

\* (variant: render() draws first and updates the controls afterwards)
RenderDrawingFirst(pending) ==
    LET u == ControlsUpdate(camera, controls)
    IN  /\ rafPending' = RequestAnimationFrame(pending)
        /\ framebuffer' = RendererRender(renderer, scene, camera)
        /\ camera' = u.camera
        /\ controls' = u.controls
        /\ frames' = (frames + 1) % FrameWrap
        /\ calls' = <<"requestAnimationFrame", "renderer.render",
                      "controls.update">>
        /\ lastError' = "none"
        /\ UNCHANGED <<renderer, scene, materials, this, row, col>>

\* (variant: render() also moves this.box along x by one cell)
RenderMovingBox(pending) ==
    LET u == ControlsUpdate(camera, controls)
    IN  /\ rafPending' = RequestAnimationFrame(pending)
        /\ camera' = u.camera
        /\ controls' = u.controls
        /\ scene' = [scene EXCEPT !.children[this.box].position[1] =
                         RatAdd(@, cfg.BOX_SIZE)]
        /\ framebuffer' = RendererRender(renderer, scene, u.camera)
        /\ frames' = (frames + 1) % FrameWrap
        /\ calls' = <<"requestAnimationFrame", "controls.update",
                      "renderer.render">>
        /\ lastError' = "none"
        /\ UNCHANGED <<renderer, materials, this, row, col>>

\* The body of render(), with `pending` callbacks waiting when it is entered.
Render(pending) ==
    LET u == ControlsUpdate(camera, controls)
    IN  /\ rafPending' = RequestAnimationFrame(pending)
        /\ camera' = u.camera
        /\ controls' = u.controls
        /\ framebuffer' = RendererRender(renderer, scene, u.camera)
        /\ frames' = (frames + 1) % FrameWrap
        /\ calls' = <<"requestAnimationFrame", "controls.update",
                      "renderer.render">>
        /\ lastError' = "none"
        /\ UNCHANGED <<renderer, scene, materials, this, row, col>>

\* app.render(), the last statement of the DOMContentLoaded handler
FirstRender ==
    /\ pc = "render"
    /\ Render(rafPending)
    /\ pc' = "idle"
    /\ UNCHANGED <<cfg, window, host, resizeListener, resizeQueued>>

\* The host fires a requested animation frame: render() runs as its callback.
AnimationFrame ==
    /\ pc = "idle"
    /\ rafPending > 0
    /\ Render(rafPending - 1)
    /\ UNCHANGED <<cfg, window, host, pc, resizeListener, resizeQueued>>

(***************************************************************************)
(* The window                                                              *)
(***************************************************************************)
\* The viewport takes a size and a 'resize' event is queued.  Handlers run to
\* completion, so this happens between handlers only.
WindowResize ==
    /\ pc \in {"waiting", "idle"}
    /\ \E w \in Windows : window' = w
    /\ resizeQueued' = TRUE
    /\ UNCHANGED <<cfg, host, pc, resizeListener, appVars, rafPending, calls,
                   lastError, framebuffer, frames>>

\* The queued 'resize' event is dispatched before any listener exists.
ResizeUnheard ==
    /\ pc \in {"waiting", "idle"}
    /\ resizeQueued
    /\ ~resizeListener
    /\ resizeQueued' = FALSE
    /\ UNCHANGED <<cfg, window, host, pc, resizeListener, appVars,
                   rafPending, calls, lastError, framebuffer, frames>>

\* this.renderer.setSize(w, h)
SetSize(rnd, w, h) == [rnd EXCEPT !.width = w, !.height = h]

\* (variant: the new ratio multiplied into the aspect already held)
SetAspectScaling(cam, w, h) ==
    [cam EXCEPT !.aspect = RatMul(@, Rat(w, h)),
                !.projectionAspect = RatMul(cam.aspect, Rat(w, h))]

\* (variant: the aspect as height / width)
SetAspectInverted(cam, w, h) ==
    [cam EXCEPT !.aspect = Rat(h, w), !.projectionAspect = Rat(h, w)]

\* this.camera.aspect = w / h; this.camera.updateProjectionMatrix()
SetAspect(cam, w, h) ==
    [cam EXCEPT !.aspect = Rat(w, h), !.projectionAspect = Rat(w, h)]

\* The constructor's resize listener.  On an undefined this.renderer or
\* this.camera the statement throws a TypeError and the rest is skipped.
OnResize ==
    /\ pc \in {"waiting", "idle"}
    /\ resizeQueued
    /\ resizeListener
    /\ resizeQueued' = FALSE
    /\ IF ~renderer.defined
         THEN /\ lastError' = "TypeError"
              /\ calls' = <<>>
              /\ UNCHANGED <<renderer, camera>>
         ELSE /\ renderer' = SetSize(renderer, window.innerWidth,
                                     window.innerHeight)
              /\ IF ~camera.defined
                   THEN /\ lastError' = "TypeError"
                        /\ calls' = <<"renderer.setSize">>
                        /\ UNCHANGED camera
                   ELSE /\ camera' = SetAspect(camera, window.innerWidth,
                                               window.innerHeight)
                        /\ calls' = <<"renderer.setSize",
                                      "camera.updateProjectionMatrix">>
                        /\ lastError' = "none"
    /\ UNCHANGED <<cfg, window, host, pc, resizeListener, scene, materials,
                   this, controls, row, col, rafPending, framebuffer, frames>>

\* The user drags on the canvas: the orbit controller takes the input.
PointerInput ==
    /\ pc = "idle"
    /\ controls.defined
    /\ controls.pending < MaxDrag
    /\ controls' = [controls EXCEPT !.pending = @ + 1]
    /\ UNCHANGED <<cfg, window, host, pc, resizeListener, renderer, camera,
                   scene, materials, this, row, col, rafPending,
                   resizeQueued, calls, lastError, framebuffer, frames>>

Next ==
    \/ Constructor
    \/ InitRenderer
    \/ InitScene
    \/ InitGrid
    \/ ForRow
    \/ BuildBox
    \/ NextRow
    \/ InitControls
    \/ FirstRender
    \/ AnimationFrame
    \/ WindowResize
    \/ ResizeUnheard
    \/ OnResize
    \/ PointerInput

Spec == Init /\ [][Next]_vars

(***************************************************************************)
(* The same program with other tables and other dimensions written into    *)
(* init(): the statements and loops are those above, only the literals     *)
(* differ.                                                                 *)
(***************************************************************************)
\* override statements a table may hold, and how many
MaxOverrides == 2
TableEntries == {O(c, 1, hex) : c \in 1..2, hex \in {\h000000, \hff5552}}
Tables == UNION {[1..n -> TableEntries] : n \in 0..MaxOverrides}
TableConfigs ==
    {[BOX_ROW |-> 3, BOX_COL |-> 3, BOX_SIZE |-> Num(BOX_SIZE),
      overrides |-> t] : t \in Tables}

\* dimensions from -1 to MaxDim, cell sizes -1, 0 and 1
MaxDim == 3
DimConfigs ==
    {[BOX_ROW |-> w, BOX_COL |-> h, BOX_SIZE |-> size,
      overrides |-> OverrideStatements] :
        w \in -1..MaxDim, h \in -1..MaxDim,
        size \in {Num(-1), Num(0), Num(1)}}

\* a page on which init() succeeds, at 800 x 600
GoodHost == [webgl |-> TRUE, wrapper |-> TRUE]
SmallWindow == [innerWidth |-> 800, innerHeight |-> 600]

TableInit == InitIn(TableConfigs, {SmallWindow}, {GoodHost})
TableSpec == TableInit /\ [][Next]_vars

DimInit == InitIn(DimConfigs, {SmallWindow}, {GoodHost})
DimSpec == DimInit /\ [][Next]_vars

\* The host fires every animation frame that was requested.
LiveSpec == Init /\ [][Next]_vars /\ WF_vars(AnimationFrame)

(***************************************************************************)
(* Properties                                                              *)
(***************************************************************************)
\* init() has returned normally (its last statement creates the controls)
InitReturned == controls.defined

\* the positions in scene.children that hold cubes
Boxes == {n \in 1..Len(scene.children) : scene.children[n].type = "Mesh"}
Box(n) == scene.children[n]
BoxesAt(r, k) == {n \in Boxes : Box(n).row = r /\ Box(n).col = k}

\* the override statements written for (r, k), by position in the text
Hits(r, k) ==
    {i \in 1..Len(cfg.overrides) :
        cfg.overrides[i].row = r /\ cfg.overrides[i].col = k}
Last(S) == CHOOSE m \in S : \A x \in S : x <= m

BaseColor == <<255, 255, 255>>
Black == <<0, 0, 0>>

\* C1: once init() has returned, every cube shows the colour of the override
\* statement written last among those naming its (row, col), and the base
\* colour when none names it; so of two statements A then B for one
\* coordinate, B is the colour shown.
C1_OverridePrecedence ==
    InitReturned =>
        \A n \in Boxes :
            LET hits == Hits(Box(n).row, Box(n).col)
            IN  ColorOf(Box(n), materials) =
                    IF hits = {} THEN BaseColor
                    ELSE Color(cfg.overrides[Last(hits)].color)

\* A cube whose coordinate is named by a statement of colour A and a later,
\* last statement of another colour B, and which shows B.
C1_Witness ==
    /\ InitReturned
    /\ \E n \in Boxes :
         LET hits == Hits(Box(n).row, Box(n).col)
         IN  \E i \in hits :
               /\ i < Last(hits)
               /\ cfg.overrides[i].color # cfg.overrides[Last(hits)].color
               /\ ColorOf(Box(n), materials) =
                      Color(cfg.overrides[Last(hits)].color)

\* C2: once init() has returned the scene holds exactly 19 * 24 = 456 cubes,
\* one for each coordinate of {1..19} x {1..24}, no coordinate twice.
C2_GridSize ==
    InitReturned =>
        /\ Cardinality(Boxes) = 456
        /\ {<<Box(n).row, Box(n).col>> : n \in Boxes} = (1..19) \X (1..24)
        /\ Cardinality({<<Box(n).row, Box(n).col>> : n \in Boxes}) =
               Cardinality(Boxes)
        /\ Len(scene.children) = 456 + 2

C2_Witness ==
    /\ InitReturned
    /\ pc = "idle"
    /\ BoxesAt(19, 24) # {}
    /\ BoxesAt(1, 1) # {}

\* C3: in the built grid the cube at (row 1, col 5) is black, 0x000000, and
\* not the base colour 0xffffff.
C3_BlackAtRow1Col5 ==
    InitReturned =>
        /\ BoxesAt(1, 5) # {}
        /\ \A n \in BoxesAt(1, 5) :
             /\ ColorOf(Box(n), materials) = Black
             /\ ColorOf(Box(n), materials) # Color(MATERIAL_PARAM.color)

C3_Witness ==
    /\ InitReturned
    /\ framebuffer.defined
    /\ \E n \in BoxesAt(1, 5) : ColorOf(Box(n), materials) = Black

\* C4: once init() has returned, every cube whose coordinate no override
\* statement names has the base colour 0xffffff; (row 1, col 1) is such a
\* coordinate.
C4_DefaultColor ==
    InitReturned =>
        /\ LET named == {<<cfg.overrides[i].row, cfg.overrides[i].col>> :
                            i \in 1..Len(cfg.overrides)}
           IN  \A n \in Boxes :
                 <<Box(n).row, Box(n).col>> \notin named =>
                     ColorOf(Box(n), materials) = BaseColor
        /\ Hits(1, 1) = {}
        /\ BoxesAt(1, 1) # {}

C4_Witness ==
    /\ InitReturned
    /\ \E n \in BoxesAt(1, 1) : ColorOf(Box(n), materials) = BaseColor
    /\ \E n \in Boxes : ColorOf(Box(n), materials) # BaseColor

\* twice a coordinate that is a multiple of 0.5, as an integer
Twice(q) == (2 * q[1]) \div q[2]
IsHalfStep(q) == 2 % q[2] = 0

\* twice the sum of one coordinate over the cubes at positions lo..hi
RECURSIVE TwiceSum(_, _, _)
TwiceSum(axis, lo, hi) ==
    IF lo > hi THEN 0
    ELSE IF lo = hi
      THEN IF Box(lo).type = "Mesh"
             THEN Twice(Box(lo).position[axis]) ELSE 0
    ELSE LET mid == (lo + hi) \div 2
         IN  TwiceSum(axis, lo, mid) + TwiceSum(axis, mid + 1, hi)

Mean(axis) ==
    Rat(TwiceSum(axis, 1, Len(scene.children)), 2 * Cardinality(Boxes))

\* C5: over all cubes placed by init() the mean x position is 0 and the
\* mean y position is 0; every coordinate is a multiple of 0.5.
C5_Centered ==
    InitReturned =>
        /\ Boxes # {}
        /\ \A n \in Boxes :
             IsHalfStep(Box(n).position[1]) /\ IsHalfStep(Box(n).position[2])
        /\ Mean(1) = Num(0)
        /\ Mean(2) = Num(0)

C5_Witness ==
    /\ InitReturned
    /\ Cardinality(Boxes) = 456
    /\ \E n \in Boxes : Box(n).position[1] = Rat(-23, 2)
    /\ \E n \in Boxes : Box(n).position[1] = Rat(23, 2)
    /\ Mean(1) = Num(0)

\* the fraction q equals n / d
RatIs(q, n, d) == q[1] * d = n * q[2]

\* C6 as stated: the cube of (row, col) is at x = col*S + offsetX,
\* y = -row*S - offsetY, z = 0 with S = 1, offsetX = -(25-1)*S/2 = -12 and
\* offsetY = -(20-1)*S/2 = -19/2.
C6_LayoutAsStated ==
    scene.defined =>
        \A n \in Boxes :
            /\ RatIs(Box(n).position[1], 2 * Box(n).col - (25 - 1), 2)
            /\ RatIs(Box(n).position[2], -2 * Box(n).row + (20 - 1), 2)
            /\ RatIs(Box(n).position[3], 0, 1)

\* C6, amended: the cube of (row, col) is at x = col*S + offsetX,
\* y = -row*S - offsetY, z = 0 with S = 1, offsetX = -25*S/2 = -25/2 and
\* offsetY = -20*S/2 = -10: the offsets halve the whole bounds 25 and 20,
\* not the bounds less one.
C6_Layout ==
    scene.defined =>
        \A n \in Boxes :
            /\ RatIs(Box(n).position[1], 2 * Box(n).col - 25, 2)
            /\ RatIs(Box(n).position[2], -2 * Box(n).row + 20, 2)
            /\ RatIs(Box(n).position[3], 0, 1)

C6_Witness ==
    /\ InitReturned
    /\ \E n \in BoxesAt(1, 1) :
         Box(n).position = <<Rat(-23, 2), Num(9), Num(0)>>
    /\ \E n \in BoxesAt(19, 24) :
         Box(n).position = <<Rat(23, 2), Num(-9), Num(0)>>

\* a step in which the queued 'resize' event is dispatched
ResizeHandled == resizeQueued /\ ~resizeQueued'

\* C7: a resize event handled after init() with the viewport at w x h makes
\* the render target w x h and the camera's aspect w / h, and leaves the
\* scene's members, their positions and their colours as they were.
C7_Resize ==
    [][(InitReturned /\ ResizeHandled) =>
          /\ renderer'.width = window.innerWidth
          /\ renderer'.height = window.innerHeight
          /\ RatIs(camera'.aspect, window.innerWidth, window.innerHeight)
          /\ scene' = scene
          /\ materials' = materials]_vars

\* Drawn at 800 x 600, then resized to 1024 x 768 with all cubes in place.
C7_Witness ==
    /\ InitReturned
    /\ framebuffer.defined /\ framebuffer.width = 800 /\ framebuffer.height = 600
    /\ calls = <<"renderer.setSize", "camera.updateProjectionMatrix">>
    /\ renderer.width = 1024 /\ renderer.height = 768
    /\ camera.aspect = Rat(1024, 768)
    /\ Cardinality(Boxes) = 456

\* C8: once init() has returned, no step adds, removes, recolours or moves
\* a scene member; of what App3 holds, only the camera's aspect and
\* orientation and the render target's size change.
C8_StaticScene ==
    [][InitReturned =>
          /\ scene' = scene
          /\ materials' = materials
          /\ this' = this
          /\ renderer' = [renderer EXCEPT !.width = renderer'.width,
                                          !.height = renderer'.height]
          /\ camera' = [camera EXCEPT !.aspect = camera'.aspect,
                                      !.projectionAspect = camera'.projectionAspect,
                                      !.azimuth = camera'.azimuth]]_vars

\* Frames were drawn, the camera was turned and the window resized.
C8_Witness ==
    /\ InitReturned
    /\ camera.azimuth # 0
    /\ framebuffer.defined /\ framebuffer.azimuth # 0
    /\ renderer.width # framebuffer.width
    /\ Cardinality(Boxes) = 456

\* C9: from the first render() on a frame callback is always pending, and if
\* the host fires every requested frame, frames are rendered again and again.
C9_RenderLoop ==
    /\ [](framebuffer.defined => rafPending > 0)
    /\ (framebuffer.defined ~> frames = 0)
    /\ (framebuffer.defined ~> frames = 1)

\* A frame drawn by a callback, with the next one requested.
C9_Witness ==
    /\ framebuffer.defined
    /\ pc = "idle"
    /\ frames = 0
    /\ rafPending = 1

\* dimensions or a cell size that are not positive
Invalid(c) == c.BOX_ROW <= 0 \/ c.BOX_COL <= 0 \/ c.BOX_SIZE[1] <= 0
Positive(n) == IF n > 0 THEN n ELSE 0

ResizeLog == <<"renderer.setSize", "camera.updateProjectionMatrix">>

\* the latest handler was the resize listener, run to its end with the
\* viewport at the size it has now
JustResizedToWindow ==
    /\ calls = ResizeLog
    /\ lastError = "none"
    /\ renderer.width = window.innerWidth
    /\ renderer.height = window.innerHeight

\* C11: a resize event handled right after another one for the same
\* viewport size leaves the render target, the camera, the scene and all
\* else as the first left them.
C11_ResizeIdempotent ==
    [][(InitReturned /\ JustResizedToWindow /\ ResizeHandled) =>
          UNCHANGED <<renderer, camera, scene, materials, this, controls,
                      rafPending, calls, lastError, framebuffer, frames>>]_vars

\* One resize handled at 1024 x 768 and a second event for that size queued.
C11_Witness ==
    /\ InitReturned
    /\ JustResizedToWindow
    /\ resizeQueued
    /\ renderer.width = 1024 /\ renderer.height = 768
    /\ framebuffer.defined /\ framebuffer.width = 800

\* the coordinates the override statements name, and with their colours
Named ==
    {<<cfg.overrides[i].row, cfg.overrides[i].col>> :
        i \in 1..Len(cfg.overrides)}
NamedWithColor ==
    {<<cfg.overrides[i].row, cfg.overrides[i].col,
       Color(cfg.overrides[i].color)>> : i \in 1..Len(cfg.overrides)}

\* C12 as stated: several coordinates are named by override statements of
\* more than one colour, and each of them shows the colour written last.
C12_OverlapsAsStated ==
    InitReturned =>
        LET overlapped ==
              {n \in Boxes :
                 \E i, j \in Hits(Box(n).row, Box(n).col) :
                    cfg.overrides[i].color # cfg.overrides[j].color}
        IN  /\ Cardinality(overlapped) >= 2
            /\ \A n \in overlapped :
                 ColorOf(Box(n), materials) =
                     Color(cfg.overrides[Last(Hits(Box(n).row,
                                                   Box(n).col))].color)

\* C12, amended: in the shipped table no coordinate is named by more than
\* one override statement.  Its 236 statements name 236 different
\* coordinates, every one of them visited, and each such cube shows the
\* colour of the one statement naming it; no cube is repainted.
C12_NoOverlap ==
    InitReturned =>
        LET named == Named
            painted == NamedWithColor
            shown == {<<Box(n).row, Box(n).col, ColorOf(Box(n), materials)>> :
                         n \in Boxes}
        IN  /\ Len(cfg.overrides) = 236
            /\ Cardinality(named) = Len(cfg.overrides)
            /\ Cardinality(painted) = Len(cfg.overrides)
            /\ painted \subseteq shown

\* The cubes of the first and of the last statement in their colours.
C12_Witness ==
    /\ InitReturned
    /\ \E n \in BoxesAt(1, 5) : ColorOf(Box(n), materials) = Black
    /\ \E n \in BoxesAt(15, 11) : ColorOf(Box(n), materials) = Color(\hff5552)
    /\ Cardinality(Named) = 236

\* the DOMContentLoaded handler is running
InHandler == pc \notin {"waiting", "idle"}

\* C13: the grid is built in one pass of the DOMContentLoaded handler, which
\* runs once and which no other handler interrupts; the first frame is drawn
\* by that handler's last statement, so whenever a frame has been drawn the
\* scene held both lights and all 456 cubes, and it is not built on later.
C13_BuildBeforeDraw ==
    /\ [](framebuffer.defined =>
             /\ InitReturned
             /\ framebuffer.objects = 456 + 2
             /\ scene.children[1].type = "DirectionalLight"
             /\ scene.children[2].type = "AmbientLight"
             /\ \A n \in 3..Len(scene.children) : Box(n).type = "Mesh")
    /\ [][pc = "idle" => pc' = "idle"]_vars
    /\ [][scene' # scene => (InHandler /\ ~InitReturned /\ ~framebuffer.defined)]_vars
    /\ [][InHandler =>
             /\ window' = window
             /\ resizeQueued' = resizeQueued
             /\ (framebuffer' # framebuffer => pc = "render")]_vars

\* The first frame, drawn by the handler itself, shows the whole scene.
C13_Witness ==
    /\ pc = "idle"
    /\ framebuffer.defined
    /\ framebuffer.objects = 456 + 2
    /\ frames = 1
    /\ rafPending = 1

\* a step that is one run of render()
Rendered == frames' # frames

\* how often a call occurs in a handler's log
Count(log, name) == Cardinality({i \in 1..Len(log) : log[i] = name})

\* C14: every run of render() updates the controls once and then draws once:
\* the frame it draws shows the camera as the update left it, with the input
\* that had accumulated before the callback applied.
C14_UpdateBeforeDraw ==
    [][Rendered =>
          /\ Count(calls', "controls.update") = 1
          /\ Count(calls', "renderer.render") = 1
          /\ \E i, j \in 1..Len(calls') :
               /\ i < j
               /\ calls'[i] = "controls.update"
               /\ calls'[j] = "renderer.render"
          /\ controls'.pending = 0
          /\ camera'.azimuth = (camera.azimuth + controls.pending) % AngleSteps
          /\ framebuffer'.azimuth = camera'.azimuth]_vars

\* A frame that shows the camera turned by the input given before it.
C14_Witness ==
    /\ pc = "idle"
    /\ calls = <<"requestAnimationFrame", "controls.update", "renderer.render">>
    /\ controls.pending = 0
    /\ camera.azimuth = 1
    /\ framebuffer.azimuth = 1

\* C15: whenever the resize listener runs, also after an init() that was
\* left part-way by an error, this.renderer and this.camera are both defined
\* and the listener ends without a TypeError.
C15_ResizeHandlerSafe ==
    [][(resizeListener /\ ResizeHandled) =>
          /\ renderer.defined
          /\ camera.defined
          /\ lastError' = "none"]_vars

\* C16: at most one animation-frame callback is pending in every state,
\* whatever resize events come in between, and none is pending before the
\* handler's own call of render().
C16_SingleRenderLoop ==
    /\ rafPending <= 1
    /\ (rafPending = 1 => (framebuffer.defined /\ InitReturned))
    /\ (pc = "idle" /\ InitReturned => rafPending = 1)

\* Frames drawn, a resize handled in between, and one callback pending.
C16_Witness ==
    /\ rafPending = 1
    /\ frames = 0
    /\ calls = ResizeLog
    /\ renderer.width # framebuffer.width

\* C17: every cube refers to a material of its own and to the one shared
\* geometry; no step changes the colour, the material or the place of a cube
\* already in the scene; and the cube a pass of the loop adds shows the
\* colour computed from the override statements for its own (row, col) alone.
C17_ColorIsolation ==
    /\ [](scene.defined =>
            LET boxes == Boxes
            IN  /\ Cardinality({Box(n).material : n \in boxes}) =
                       Cardinality(boxes)
                /\ \A n \in boxes : Box(n).geometry = "boxGeometry")
    /\ [][(scene.defined /\ scene'.defined) =>
            /\ Len(scene'.children) >= Len(scene.children)
            /\ \A n \in Boxes :
                 /\ scene'.children[n] = Box(n)
                 /\ ColorOf(Box(n), materials') = ColorOf(Box(n), materials)
            /\ \A n \in (Len(scene.children) + 1)..Len(scene'.children) :
                 scene'.children[n].type = "Mesh" =>
                     ColorOf(scene'.children[n], materials') =
                         RunOverrides(cfg.overrides, 1, Len(cfg.overrides),
                                      scene'.children[n].row,
                                      scene'.children[n].col, BaseColor)]_vars

\* Neighbouring cubes of one row, one repainted and one not, on two materials.
C17_Witness ==
    /\ InitReturned
    /\ \E a \in BoxesAt(1, 5) : \E b \in BoxesAt(1, 4) :
         /\ Box(a).material # Box(b).material
         /\ Box(a).geometry = Box(b).geometry
         /\ ColorOf(Box(a), materials) = Black
         /\ ColorOf(Box(b), materials) = BaseColor
         /\ b < a

====
